---- MODULE Spec2Model ----
(***************************************************************************)
(* QuizController (src/src/components/quiz/QuizController.tsx): the        *)
(* navigation state machine of the quiz funnel, its answer ledger and its  *)
(* one-shot completion effect.                                             *)
(*                                                                         *)
(* The React state cells are the variables.  An intent handler            *)
(* (handleAnswer, handleNext, handlePrevious, handleInterstitialContinue)  *)
(* is one atomic action on the committed state; a setTimeout callback is   *)
(* a record in `timers` that a later action fires; the completion          *)
(* useEffect is an action of its own that runs, once its condition holds,  *)
(* before any other handler or timer (React runs the effects of a commit   *)
(* before it handles the next event).                                      *)
(***************************************************************************)
EXTENDS Integers, Sequences, FiniteSets, TLC

\* ---------------------------------------------------------------- bounds
MaxQuestions == 6   \* the catalogs have 0..MaxQuestions questions
MaxRapid == 1       \* navigation intents issued while a transition is in flight
MaxAnswers == 2     \* entries of participant.answers
MaxSummaryQuestions == 4   \* the catalogs whose prompt texts are drawn freely
MaxCatalog == 40    \* the catalogs the progress percentage is computed over

\* ------------------------------------------------------------- constants
NULL == "null"

AllIds == <<"q1", "q2", "q3", "q4", "q5", "q6", "q7", "q8">>

Values == {"a", "skip"}

WebhookUrls == {"", "  ", "https://hook"}

\* The prompt texts two or more questions of a catalog can share.
PromptTexts == {"What is your goal?", "How much time do you have?"}

InterstitialTypes == {"a", "b", "c"}

QuizStage == {"questions", "interstitial-a", "interstitial-b",
              "interstitial-c", "redirecting"}

FadeOutDelay == 300
QuestionDelay == 50
InterstitialDelay == 500

VARIABLES
  config,                       \* props: questions, prompts, branching,
                                \* webhookUrl
  mounted,                      \* the component is mounted
  stage,
  currentQuestionId,
  questionHistory,
  isTransitioning,
  isInterstitialTransitioning,
  currentInterstitial,
  answers,                      \* participant.answers
  hasSentCompletionData,
  humanReadableMap,             \* the answer summary the effect has built
  host,                         \* what the effect met: window.parent, the
                                \* outcome of postMessage and of the webhook
  timers,                       \* pending setTimeout callbacks, oldest first
  calls,                        \* the calls of the effect so far, in order
  rapid,                        \* navigation intents issued in flight so far
  lastOp                        \* the handler, callback or effect that ran last

vars == <<config, mounted, stage, currentQuestionId, questionHistory, isTransitioning,
          isInterstitialTransitioning, currentInterstitial, answers,
          hasSentCompletionData, humanReadableMap, host, timers, calls,
          rapid, lastOp>>

navVars == <<stage, currentQuestionId, questionHistory, isTransitioning,
             isInterstitialTransitioning, currentInterstitial>>

\* ------------------------------------------------------------ helpers
Last(s) == s[Len(s)]

\* array[array.length - 1]: undefined (falsy) on the empty array
LastOrNull(s) == IF Len(s) = 0 THEN NULL ELSE s[Len(s)]

\* Array.prototype.findIndex, 1-based; 0 stands for -1
IndexOfId(seq, id) ==
  IF \E i \in 1..Len(seq) : seq[i] = id
  THEN CHOOSE i \in 1..Len(seq) :
         seq[i] = id /\ \A j \in 1..(i - 1) : seq[j] # id
  ELSE 0

findIndex(ans, qid) == IndexOfId([i \in 1..Len(ans) |-> ans[i].questionId], qid)

\* String.prototype.trim on the endpoint values of the model
Trim(u) == IF u = "  " THEN "" ELSE u

Count(s, x) == Cardinality({i \in 1..Len(s) : s[i] = x})

InterstitialStage(t) == "interstitial-" \o t

\* ------------------------------------------ JavaScript number arithmetic
\* A positive double is [sig, exp]: `sig` is its 53-bit significand, an
\* integer written in limbs of LimbBits bits, the least significant limb
\* first, and its value is sig * 2^exp.
SignificandBits == 53
LimbBits == 18

RECURSIVE Pow2(_)
Pow2(s) == IF s = 0 THEN 1 ELSE 2 * Pow2(s - 1)

Limb == Pow2(LimbBits)

RECURSIVE BitLen(_)
BitLen(v) == IF v = 0 THEN 0 ELSE 1 + BitLen(v \div 2)

\* The number of binary digits of a limb sequence without leading zero limb.
BitLength(x) ==
  IF x = <<>> THEN 0 ELSE LimbBits * (Len(x) - 1) + BitLen(x[Len(x)])

\* Bit i of x, bit 0 being the least significant.
TestBit(x, i) ==
  LET l == (i \div LimbBits) + 1
  IN IF l > Len(x) THEN 0 ELSE (x[l] \div Pow2(i % LimbBits)) % 2

\* x * m + carry for small integers m and carry
RECURSIVE MulSmall(_, _, _)
MulSmall(x, m, carry) ==
  IF x = <<>> THEN (IF carry = 0 THEN <<>> ELSE <<carry>>)
  ELSE <<(Head(x) * m + carry) % Limb>>
       \o MulSmall(Tail(x), m, (Head(x) * m + carry) \div Limb)

\* floor(x / 2^d)
ShiftRight(x, d) ==
  LET whole == d \div LimbBits
      part == d % LimbBits
      y == SubSeq(x, whole + 1, Len(x))
      z == [i \in 1..Len(y) |->
             (y[i] \div Pow2(part))
             + (IF i < Len(y)
                THEN (y[i + 1] % Pow2(part)) * Pow2(LimbBits - part)
                ELSE 0)]
  IN IF Len(y) > 0 /\ z[Len(y)] = 0 THEN SubSeq(z, 1, Len(y) - 1) ELSE z

\* The double nearest to the exact value x * 2^exp (plus a non-zero rest
\* below the last bit of x when `sticky`), for x of at least 53 bits: round
\* to nearest, ties to even.
RoundToDouble(x, exp, sticky) ==
  LET d == BitLength(x) - SignificandBits
      kept == ShiftRight(x, d)
      guard == d > 0 /\ TestBit(x, d - 1) = 1
      rest == sticky \/ \E i \in 0..(d - 2) : TestBit(x, i) = 1
      up == guard /\ (rest \/ TestBit(kept, 0) = 1)
      r == IF up THEN MulSmall(kept, 1, 1) ELSE kept
  IN IF BitLength(r) > SignificandBits
     THEN [sig |-> ShiftRight(r, 1), exp |-> exp + d + 1]
     ELSE [sig |-> r, exp |-> exp + d]

\* The s with n <= k * 2^s < 2n, for 1 <= k <= n.
RECURSIVE Scale(_, _)
Scale(k, n) == IF k >= n THEN 0 ELSE 1 + Scale(2 * k, n)

\* k / n on doubles, for integers 1 <= k <= n: three limbs of the binary
\* expansion of k * 2^s / n behind its leading 1, then the rounding.
Divide(k, n) ==
  LET s == Scale(k, n)
      r0 == k * Pow2(s) - n
      c1 == (r0 * Limb) \div n
      r1 == (r0 * Limb) % n
      c2 == (r1 * Limb) \div n
      r2 == (r1 * Limb) % n
      c3 == (r2 * Limb) \div n
      r3 == (r2 * Limb) % n
  IN RoundToDouble(<<c3, c2, c1, 1>>, 0 - 3 * LimbBits - s, r3 # 0)

\* x * m on doubles, for a small positive integer m
Times(x, m) == RoundToDouble(MulSmall(x.sig, m, 0), x.exp, FALSE)

\* Math.round of a positive double below 2^17: floor(x + 0.5)
MathRound(x) ==
  LET f == 0 - x.exp
      twice == ShiftRight(x.sig, f - 1)
  IN IF f > SignificandBits \/ twice = <<>> THEN 0
     ELSE (twice[1] + 1) \div 2

\* ------------------------------------------------- the question catalog
\* getNextQuestionId: the next id in catalog order; in a branching catalog
\* the answer "skip" to the current question jumps over the next question.
getNextQuestionId(cur, ans, cfg) ==
  LET qs == cfg.questions
      i == IndexOfId(qs, cur)
      k == findIndex(ans, cur)
      step == IF cfg.branching /\ k > 0 /\ ans[k].value = "skip" THEN 2 ELSE 1
  IN IF i = 0 THEN NULL
     ELSE IF i + step <= Len(qs) THEN qs[i + step]
     ELSE NULL

shouldShowInterstitial(fromQuestionId, toQuestionId) ==
  IF fromQuestionId = "q1" /\ toQuestionId = "q2" THEN "a"
  ELSE IF fromQuestionId = "q3" /\ toQuestionId = "q4" THEN "b"
  ELSE IF fromQuestionId = "q5" /\ toQuestionId = "q6" THEN "c"
  ELSE NULL

\* Mutant: every interstitial continues to q2.
continueTarget_alwaysQ2(t) ==
  IF t \in {"a", "b", "c"} THEN "q2" ELSE NULL

\* handleInterstitialContinue: the question after the interstitial
continueTarget(t) ==
  IF t = "a" THEN "q2"
  ELSE IF t = "b" THEN "q4"
  ELSE IF t = "c" THEN "q6"
  ELSE NULL

\* handleInterstitialBack: the question before the interstitial
backTarget(t) ==
  IF t = "a" THEN "q1"
  ELSE IF t = "b" THEN "q3"
  ELSE IF t = "c" THEN "q5"
  ELSE NULL

\* getQuestionText: the prompt of the catalog question with that id.
getQuestionText(questionId, cfg) ==
  LET i == IndexOfId(cfg.questions, questionId)
  IN IF i > 0 THEN cfg.prompts[i] ELSE NULL

\* getOptionText: the label of the option of that question with that value;
\* every question of the model offers the same two options.
getOptionText(questionId, value, cfg) ==
  IF IndexOfId(cfg.questions, questionId) = 0 THEN NULL
  ELSE IF value = "a" THEN "Option A"
  ELSE IF value = "skip" THEN "Skip this step"
  ELSE NULL

\* calculateProgress, lines 268-275, for the current question `cur` of the
\* catalog `questions`; `position` is currentIndex + 1.
progressOf(cur, questions) ==
  IF cur = NULL \/ Len(questions) = 0 THEN 0
  ELSE LET position == IndexOfId(questions, cur)
       IN IF position = 0 THEN 0
          ELSE MathRound(Times(Divide(position, Len(questions)), 100))

\* ------------------------------------------------------ the answer ledger
\* Mutant: the existing entry is never looked up.
recordAnswer_alwaysAppend(ans, answer) == Append(ans, answer)

\* Mutant: a re-answered entry moves to the end of the ledger.
recordAnswer_moveToEnd(ans, answer) ==
  LET rest == SelectSeq(ans, LAMBDA a : a.questionId # answer.questionId)
  IN Append(rest, answer)

recordAnswer(ans, answer) ==
  LET existingIndex == findIndex(ans, answer.questionId)
  IN IF existingIndex > 0
     THEN [ans EXCEPT ![existingIndex] = answer]
     ELSE Append(ans, answer)

\* ------------------------------------------------------------- timers
Timer(kind, delay, id, hist) ==
  [kind |-> kind, delay |-> delay, id |-> id, hist |-> hist]

Schedule(t) == timers' = Append(timers, t)

RemoveAt(s, i) == SubSeq(s, 1, i - 1) \o SubSeq(s, i + 1, Len(s))

\* A callback can run once every callback scheduled before it with a delay
\* no longer than its own has run.
CanFire(i) == \A j \in 1..(i - 1) : timers[j].delay > timers[i].delay

\* ---------------------------------------------------- completion effect
\* Mutant: the latch is not consulted.
completionCondition_noLatch ==
  /\ stage = "questions"
  /\ currentQuestionId = NULL
  /\ Len(answers) > 0

\* Mutant: the ledger is not consulted.
completionCondition_noLedger ==
  /\ stage = "questions"
  /\ currentQuestionId = NULL
  /\ ~hasSentCompletionData

completionCondition ==
  /\ stage = "questions"
  /\ currentQuestionId = NULL
  /\ Len(answers) > 0
  /\ ~hasSentCompletionData

\* humanReadableMap[qTitle] = optionText on a JavaScript object
SetProperty(m, k, v) ==
  [x \in (DOMAIN m) \cup {k} |-> IF x = k THEN v ELSE m[x]]

EmptyObject == [x \in {} |-> NULL]

\* participant.answers.forEach(...), lines 51-55, started from the object m
RECURSIVE forEachAnswer(_, _, _)
forEachAnswer(ans, cfg, m) ==
  IF ans = <<>> THEN m
  ELSE LET qTitle == getQuestionText(Head(ans).questionId, cfg)
           optionText == getOptionText(Head(ans).questionId, Head(ans).value,
                                       cfg)
       IN forEachAnswer(Tail(ans), cfg, SetProperty(m, qTitle, optionText))

\* config.webhookUrl && config.webhookUrl.trim() !== ""
webhookConfigured(url) == url # "" /\ Trim(url) # ""

\* Mutant: the latch is requested after the external calls.
effectCalls_latchLast(url, embedded, throws) ==
  (IF webhookConfigured(url) THEN <<"webhook">> ELSE <<>>)
  \o <<"postMessage">>
  \o (IF throws \/ ~embedded THEN <<"location">> ELSE <<>>)
  \o <<"setHasSentCompletionData">>

\* Mutant: the direct navigation is left to the catch block.
effectCalls_noTopLevelFallback(url, embedded, throws) ==
  <<"setHasSentCompletionData">>
  \o (IF webhookConfigured(url) THEN <<"webhook">> ELSE <<>>)
  \o <<"postMessage">>
  \o (IF throws THEN <<"location">> ELSE <<>>)

\* The calls of one run of the effect, in program order: the request to set
\* the latch, the webhook when an endpoint is configured, postMessage, and
\* window.location when postMessage threw or the page is not embedded.
effectCalls(url, embedded, throws) ==
  <<"setHasSentCompletionData">>
  \o (IF webhookConfigured(url) THEN <<"webhook">> ELSE <<>>)
  \o <<"postMessage">>
  \o (IF throws \/ ~embedded THEN <<"location">> ELSE <<>>)

\* What a run of the effect meets: whether window.parent is another window,
\* whether postMessage throws, and how the promise of the webhook settles.
Host(embedded, throws, rejects, url) ==
  [parent |-> IF embedded THEN "other" ELSE "self",
   postMessage |-> IF throws THEN "throws" ELSE "returns",
   webhook |-> IF ~webhookConfigured(url) THEN "skipped"
               ELSE IF rejects THEN "rejects" ELSE "resolves"]

NoHost == [parent |-> NULL, postMessage |-> NULL, webhook |-> NULL]

completionEffect ==
  /\ mounted
  /\ completionCondition
  /\ hasSentCompletionData' = TRUE
  /\ stage' = "redirecting"
  /\ humanReadableMap' = forEachAnswer(answers, config, EmptyObject)
  /\ \E embedded \in BOOLEAN, throws \in BOOLEAN, rejects \in BOOLEAN :
       /\ calls' = calls \o effectCalls(config.webhookUrl, embedded, throws)
       /\ host' = Host(embedded, throws, rejects, config.webhookUrl)
  /\ lastOp' = "completionEffect"
  /\ UNCHANGED <<config, mounted, currentQuestionId, questionHistory,
                 isTransitioning, isInterstitialTransitioning,
                 currentInterstitial, answers, timers, rapid>>

\* No handler or callback runs between a commit and the effects of it.
settled == ~completionCondition

\* -------------------------------------------------------------- Init
Catalog(n) == SubSeq(AllIds, 1, n)

\* The prompts of a catalog whose questions all read differently.
DistinctPrompts(n) == [i \in 1..n |-> "Question " \o ToString(i)]

\* The state after construction with the props cfg.
InitWith(cfg) ==
  /\ config = cfg
  /\ mounted = TRUE
  /\ stage = "questions"
  /\ currentQuestionId =
       IF Len(config.questions) > 0 THEN config.questions[1] ELSE NULL
  /\ questionHistory =
       IF Len(config.questions) > 0 THEN <<config.questions[1]>> ELSE <<>>
  /\ isTransitioning = FALSE
  /\ isInterstitialTransitioning = FALSE
  /\ currentInterstitial = NULL
  /\ answers = <<>>
  /\ hasSentCompletionData = FALSE
  /\ humanReadableMap = EmptyObject
  /\ host = NoHost
  /\ timers = <<>>
  /\ calls = <<>>
  /\ rapid = 0
  /\ lastOp = "init"

Init ==
  \E n \in 0..MaxQuestions, b \in BOOLEAN, u \in WebhookUrls :
    InitWith([questions |-> Catalog(n), prompts |-> DistinctPrompts(n),
              branching |-> b, webhookUrl |-> u])

\* The catalogs of up to MaxCatalog questions, without branching.
QuestionId(i) == "q" \o ToString(i)

LongCatalog(n) == [i \in 1..n |-> QuestionId(i)]

InitProgress ==
  \E n \in 0..MaxCatalog :
    InitWith([questions |-> LongCatalog(n), prompts |-> DistinctPrompts(n),
              branching |-> FALSE, webhookUrl |-> ""])

\* Catalogs of up to MaxSummaryQuestions questions with any prompt texts.
InitSummary ==
  \E n \in 0..MaxSummaryQuestions, b \in BOOLEAN, u \in WebhookUrls :
    \E p \in [1..n -> PromptTexts] :
      InitWith([questions |-> Catalog(n), prompts |-> p,
                branching |-> b, webhookUrl |-> u])

\* ------------------------------------------------------------ rendering
\* renderStage: the question card, which holds onAnswer, onNext and
\* onPrevious, is mounted in the stage "questions" while there is a current
\* question; the interstitial step, which holds onContinue, in the three
\* interstitial stages; the two spinners hold no handler.
questionCardShown == stage = "questions" /\ currentQuestionId # NULL

interstitialShown ==
  stage \in {"interstitial-a", "interstitial-b", "interstitial-c"}

\* ------------------------------------------------------------ handlers
\* Mutant: an answer is dropped while a transition is in flight.
handleAnswer_gated ==
  /\ mounted
  /\ settled
  /\ questionCardShown
  /\ ~(isTransitioning \/ isInterstitialTransitioning)
  /\ findIndex(answers, currentQuestionId) > 0 \/ Len(answers) < MaxAnswers
  /\ \E v \in Values :
       answers' = recordAnswer(answers,
                               [questionId |-> currentQuestionId, value |-> v])
  /\ lastOp' = "handleAnswer"
  /\ UNCHANGED <<config, mounted, navVars, hasSentCompletionData,
                 humanReadableMap, host, timers, calls, rapid>>

\* The question card emits answers for the question it shows.
handleAnswer ==
  /\ mounted
  /\ settled
  /\ questionCardShown
  /\ findIndex(answers, currentQuestionId) > 0 \/ Len(answers) < MaxAnswers
  /\ \E v \in Values :
       answers' = recordAnswer(answers,
                               [questionId |-> currentQuestionId, value |-> v])
  /\ lastOp' = "handleAnswer"
  /\ UNCHANGED <<config, mounted, navVars, hasSentCompletionData,
                 humanReadableMap, host, timers, calls, rapid>>

transitionInFlight == isTransitioning \/ isInterstitialTransitioning

\* A navigation intent: the handler `h` invoked by the display components.
\* The intents that arrive while a transition is in flight are counted, and
\* the model follows at most MaxRapid of them in a session.
Intent(h) ==
  /\ mounted
  /\ settled
  /\ IF transitionInFlight
     THEN rapid < MaxRapid /\ rapid' = rapid + 1
     ELSE rapid' = rapid
  /\ h
  /\ UNCHANGED <<config, mounted, answers, hasSentCompletionData,
                 humanReadableMap, host, calls>>

handleNext ==
  /\ lastOp' = "handleNext"
  /\ IF currentQuestionId = NULL
     THEN UNCHANGED <<navVars, timers>>
     ELSE LET nextQuestionId ==
                getNextQuestionId(currentQuestionId, answers, config)
              interstitialType ==
                shouldShowInterstitial(currentQuestionId, nextQuestionId)
          IN IF nextQuestionId # NULL
             THEN /\ isTransitioning' = TRUE
                  /\ IF interstitialType # NULL
                     THEN Schedule(Timer("showInterstitial", FadeOutDelay,
                                         interstitialType, <<>>))
                     ELSE Schedule(Timer("nextQuestion", QuestionDelay,
                                         nextQuestionId, <<>>))
                  /\ UNCHANGED <<stage, currentQuestionId, questionHistory,
                                 isInterstitialTransitioning,
                                 currentInterstitial>>
             ELSE /\ currentQuestionId' = NULL
                  /\ UNCHANGED <<stage, questionHistory, isTransitioning,
                                 isInterstitialTransitioning,
                                 currentInterstitial, timers>>

handleInterstitialContinue ==
  /\ lastOp' = "handleInterstitialContinue"
  /\ IF currentInterstitial = NULL \/ isInterstitialTransitioning
     THEN UNCHANGED <<navVars, timers>>
     ELSE /\ isInterstitialTransitioning' = TRUE
          /\ Schedule(Timer("continue", InterstitialDelay,
                            continueTarget(currentInterstitial), <<>>))
          /\ UNCHANGED <<stage, currentQuestionId, questionHistory,
                         isTransitioning, currentInterstitial>>

\* The body of handleInterstitialBack, which handlePrevious calls.
handleInterstitialBack ==
  IF currentInterstitial = NULL \/ isInterstitialTransitioning
  THEN UNCHANGED <<navVars, timers>>
  ELSE /\ isInterstitialTransitioning' = TRUE
       /\ Schedule(Timer("back", InterstitialDelay,
                         backTarget(currentInterstitial), <<>>))
       /\ UNCHANGED <<stage, currentQuestionId, questionHistory,
                      isTransitioning, currentInterstitial>>

\* Mutant: the guard lets the first question be popped.
canGoBack_offByOne == Len(questionHistory) > 0

canGoBack == Len(questionHistory) > 1

popHistory(h) == SubSeq(h, 1, Len(h) - 1)

handlePrevious ==
  /\ lastOp' = "handlePrevious"
  /\ IF ~canGoBack
     THEN UNCHANGED <<navVars, timers>>
     ELSE IF currentInterstitial # NULL
     THEN handleInterstitialBack
     ELSE LET newHistory == popHistory(questionHistory)
              previousQuestionId == LastOrNull(newHistory)
          IN /\ isTransitioning' = TRUE
             /\ Schedule(Timer("previous", QuestionDelay,
                               previousQuestionId, newHistory))
             /\ UNCHANGED <<stage, currentQuestionId, questionHistory,
                            isInterstitialTransitioning, currentInterstitial>>

\* ------------------------------------------------- setTimeout callbacks
Fires(kind, i) ==
  /\ settled
  /\ i \in 1..Len(timers)
  /\ timers[i].kind = kind
  /\ CanFire(i)
  /\ timers' = RemoveAt(timers, i)
  /\ lastOp' = kind
  /\ UNCHANGED <<config, mounted, answers, hasSentCompletionData,
                 humanReadableMap, host, calls, rapid>>

\* Mutant: the updates of a callback are applied after the unmount too.
setState_afterUnmount(updates) == updates

\* The state setters a callback calls: React applies the updates while the
\* component is mounted and ignores them once it is unmounted.
setState(updates) == IF mounted THEN updates ELSE UNCHANGED navVars

\* handleNext, lines 160-164
showInterstitial ==
  \E i \in 1..Len(timers) :
    /\ Fires("showInterstitial", i)
    /\ setState(/\ stage' = InterstitialStage(timers[i].id)
                /\ currentInterstitial' = timers[i].id
                /\ isTransitioning' = FALSE
                /\ UNCHANGED <<currentQuestionId, questionHistory,
                               isInterstitialTransitioning>>)

\* Mutant: the callback forgets to push the question on the history.
nextQuestion_noHistory ==
  \E i \in 1..Len(timers) :
    /\ Fires("nextQuestion", i)
    /\ setState(/\ currentQuestionId' = timers[i].id
                /\ isTransitioning' = FALSE
                /\ UNCHANGED <<stage, questionHistory,
                               isInterstitialTransitioning,
                               currentInterstitial>>)

\* handleNext, lines 169-173
nextQuestion ==
  \E i \in 1..Len(timers) :
    /\ Fires("nextQuestion", i)
    /\ setState(/\ currentQuestionId' = timers[i].id
                /\ questionHistory' = Append(questionHistory, timers[i].id)
                /\ isTransitioning' = FALSE
                /\ UNCHANGED <<stage, isInterstitialTransitioning,
                               currentInterstitial>>)

\* handleInterstitialContinue, lines 201-209
continue ==
  \E i \in 1..Len(timers) :
    /\ Fires("continue", i)
    /\ setState(/\ IF timers[i].id # NULL
                   THEN /\ stage' = "questions"
                        /\ currentQuestionId' = timers[i].id
                        /\ questionHistory'
                             = Append(questionHistory, timers[i].id)
                        /\ currentInterstitial' = NULL
                   ELSE UNCHANGED <<stage, currentQuestionId,
                                    questionHistory, currentInterstitial>>
                /\ isInterstitialTransitioning' = FALSE
                /\ UNCHANGED isTransitioning)

\* Mutant: the way back leaves the interstitial marked active.
back_keepsInterstitial ==
  \E i \in 1..Len(timers) :
    /\ Fires("back", i)
    /\ setState(/\ IF timers[i].id # NULL
                   THEN /\ stage' = "questions"
                        /\ currentQuestionId' = timers[i].id
                   ELSE UNCHANGED <<stage, currentQuestionId>>
                /\ isInterstitialTransitioning' = FALSE
                /\ UNCHANGED <<questionHistory, isTransitioning,
                               currentInterstitial>>)

\* handleInterstitialBack, lines 231-238
back ==
  \E i \in 1..Len(timers) :
    /\ Fires("back", i)
    /\ setState(/\ IF timers[i].id # NULL
                   THEN /\ stage' = "questions"
                        /\ currentQuestionId' = timers[i].id
                        /\ currentInterstitial' = NULL
                   ELSE UNCHANGED <<stage, currentQuestionId,
                                    currentInterstitial>>
                /\ isInterstitialTransitioning' = FALSE
                /\ UNCHANGED <<questionHistory, isTransitioning>>)

\* Mutant: the callback moves back without popping the history.
previous_keepsHistory ==
  \E i \in 1..Len(timers) :
    /\ Fires("previous", i)
    /\ setState(/\ currentQuestionId' = timers[i].id
                /\ isTransitioning' = FALSE
                /\ UNCHANGED <<stage, questionHistory,
                               isInterstitialTransitioning,
                               currentInterstitial>>)

\* handlePrevious, lines 259-263
previous ==
  \E i \in 1..Len(timers) :
    /\ Fires("previous", i)
    /\ setState(/\ currentQuestionId' = timers[i].id
                /\ questionHistory' = timers[i].hist
                /\ isTransitioning' = FALSE
                /\ UNCHANGED <<stage, isInterstitialTransitioning,
                               currentInterstitial>>)

timerFires ==
  \/ showInterstitial
  \/ nextQuestion
  \/ continue
  \/ back
  \/ previous

\* ------------------------------------------------------ specifications
\* advance() and recordAnswer() come from the question card,
\* exitInterstitialForward() from the interstitial step, retreat() from
\* either screen.
advance == questionCardShown /\ Intent(handleNext)

retreat == (questionCardShown \/ interstitialShown) /\ Intent(handlePrevious)

exitInterstitialForward == interstitialShown /\ Intent(handleInterstitialContinue)

Next ==
  \/ completionEffect
  \/ handleAnswer
  \/ advance
  \/ retreat
  \/ exitInterstitialForward
  \/ timerFires

Spec == Init /\ [][Next]_vars

\* The display components respect the in-flight flags: no navigation intent
\* arrives while a transition is in flight.
NextGated ==
  \/ completionEffect
  \/ handleAnswer
  \/ ~transitionInFlight /\ advance
  \/ ~transitionInFlight /\ retreat
  \/ ~transitionInFlight /\ exitInterstitialForward
  \/ timerFires

SpecGated == Init /\ [][NextGated]_vars

\* A participant who moves through the questions without answering any.
NextProgress ==
  \/ ~transitionInFlight /\ advance
  \/ ~transitionInFlight /\ retreat
  \/ ~transitionInFlight /\ exitInterstitialForward
  \/ timerFires

SpecProgress == InitProgress /\ [][NextProgress]_vars

\* The component is unmounted: its handlers and effects are gone, the
\* callbacks it has scheduled stay scheduled (nothing calls clearTimeout).
unmount ==
  /\ mounted
  /\ settled
  /\ mounted' = FALSE
  /\ lastOp' = "unmount"
  /\ UNCHANGED <<config, navVars, answers, hasSentCompletionData,
                 humanReadableMap, host, timers, calls, rapid>>

NextTeardown == NextGated \/ unmount

\* Sessions that can end in an unmount at any moment.
SpecTeardown == Init /\ [][NextTeardown]_vars

\* React runs the effects of every commit.
FairSpec == Spec /\ WF_vars(completionEffect)

\* Sessions over the catalogs with freely drawn prompt texts.
SpecSummary == InitSummary /\ [][NextGated]_vars

\* ---------------------------------------------------------------- claims
NoAdjacentDuplicates(h) == \A i \in 1..(Len(h) - 1) : h[i] # h[i + 1]

\* The binding table read off shouldShowInterstitial: the question an
\* interstitial kind is entered from, and the one it leads to.
CatalogIds == {AllIds[i] : i \in 1..Len(AllIds)}

BoundFrom(k) ==
  CHOOSE f \in CatalogIds : \E t \in CatalogIds : shouldShowInterstitial(f, t) = k

BoundTo(k) ==
  CHOOSE t \in CatalogIds : \E f \in CatalogIds : shouldShowInterstitial(f, t) = k

\* C1: the completion trigger fires at most once in a session: the webhook,
\* the redirect message and the direct navigation are each dispatched at most
\* once, and once anything has been dispatched the latch is set and stays set,
\* however often the completion check runs again.
C1_CompletionAtMostOnce ==
  /\ Count(calls, "webhook") <= 1
  /\ Count(calls, "postMessage") <= 1
  /\ Count(calls, "location") <= 1
  /\ calls # <<>> => hasSentCompletionData
  /\ hasSentCompletionData => Count(calls, "postMessage") = 1

\* The completion check runs again with only the latch holding it back.
C1_Witness ==
  /\ hasSentCompletionData
  /\ stage = "questions"
  /\ currentQuestionId = NULL
  /\ Len(answers) > 0
  /\ Count(calls, "postMessage") = 1

\* C2: when no navigation intent arrives while a transition is in flight,
\* questionHistory never holds two equal adjacent entries, and while a
\* question is shown in the stage "questions" the last entry of
\* questionHistory is currentQuestionId.
C2_HistoryTracksCurrent ==
  /\ NoAdjacentDuplicates(questionHistory)
  /\ questionCardShown =>
       /\ questionHistory # <<>>
       /\ Last(questionHistory) = currentQuestionId

\* A question reached by going back, with more history behind it.
C2_Witness ==
  /\ lastOp = "previous"
  /\ questionCardShown
  /\ Len(questionHistory) >= 3

\* C3: while a transition is in flight a new navigation intent is dropped,
\* so at most one scheduled transition is pending at any time.
C3_AtMostOneTransitionPending == Len(timers) <= 1

\* C4: retreat() from Interstitial(K), entered from question X with no
\* transition in flight, schedules the way back, and once the delay has
\* fired the stage is "questions", currentQuestionId is X, no interstitial is
\* active and questionHistory has kept its length.
C4_RetreatFromInterstitial ==
  /\ [][(interstitialShown /\ ~transitionInFlight
           /\ lastOp' = "handlePrevious")
        => /\ Len(timers') = Len(timers) + 1
           /\ Last(timers').kind = "back"
           /\ Last(timers').id = BoundFrom(currentInterstitial)]_vars
  /\ [][lastOp' = "back"
        => /\ stage' = "questions"
           /\ currentQuestionId' = BoundFrom(currentInterstitial)
           /\ currentInterstitial' = NULL
           /\ Len(questionHistory') = Len(questionHistory)]_vars

\* C5: exitInterstitialForward() from Interstitial(K) schedules the one way
\* forward, to the question K is bound to lead to, and once that delay has
\* fired the stage is "questions", currentQuestionId is that question, no
\* interstitial is active and questionHistory has grown by exactly that
\* question.
C5_ContinueFromInterstitial ==
  /\ [][(interstitialShown /\ ~isInterstitialTransitioning
           /\ lastOp' = "handleInterstitialContinue")
        => /\ Len(timers') = Len(timers) + 1
           /\ Last(timers').kind = "continue"
           /\ Last(timers').id = BoundTo(currentInterstitial)
           /\ isInterstitialTransitioning']_vars
  /\ [][lastOp' = "continue"
        => /\ stage' = "questions"
           /\ \E i \in 1..Len(timers) :
                /\ timers[i].kind = "continue"
                /\ currentQuestionId' = timers[i].id
           /\ currentInterstitial' = NULL
           /\ ~isInterstitialTransitioning'
           /\ questionHistory' = Append(questionHistory, currentQuestionId')]_vars
  /\ [](Cardinality({i \in 1..Len(timers) : timers[i].kind = "continue"}) <= 1)

\* Interstitial C has been left forward, to q6.
C5_Witness ==
  /\ lastOp = "continue"
  /\ stage = "questions"
  /\ currentQuestionId = "q6"
  /\ Last(questionHistory) = "q6"

\* C6: the completion effect fires only from a state with the stage
\* "questions", no current question, a non-empty ledger and the latch not
\* yet set; so it has never fired while the ledger or the catalog is empty.
C6_FiresOnlyWhenDue ==
  /\ [][lastOp' = "completionEffect"
        => /\ stage = "questions"
           /\ currentQuestionId = NULL
           /\ Len(answers) > 0
           /\ ~hasSentCompletionData]_vars
  /\ [](hasSentCompletionData
        => Len(answers) > 0 /\ Len(config.questions) > 0)

C6_Witness == lastOp = "completionEffect" /\ hasSentCompletionData

\* C7: whenever advance() finds no next question and the ledger holds an
\* answer, completion fires: the completion effect is due, and it sets the
\* latch and the stage "redirecting".
C7_AdvancePastEndCompletes ==
  /\ [](lastOp = "handleNext" /\ currentQuestionId = NULL /\ Len(answers) > 0
        => completionCondition)
  /\ [][completionCondition
        => hasSentCompletionData' /\ stage' = "redirecting"]_vars

\* C8: handleAnswer for a question that has an entry replaces that entry
\* where it is and leaves the length of the ledger and every other entry as
\* they were; for a question without an entry it appends one entry.
C8_RecordReplacesInPlace ==
  [][lastOp' = "handleAnswer"
     => LET i == findIndex(answers, currentQuestionId)
        IN IF i > 0
           THEN /\ Len(answers') = Len(answers)
                /\ answers'[i].questionId = currentQuestionId
                /\ answers'[i].value \in Values
                /\ \A j \in 1..Len(answers) : j # i => answers'[j] = answers[j]
           ELSE /\ Len(answers') = Len(answers) + 1
                /\ SubSeq(answers', 1, Len(answers)) = answers
                /\ Last(answers').questionId = currentQuestionId
                /\ Last(answers').value \in Values]_vars

\* The first of two entries has just been answered again.
C8_Witness ==
  /\ lastOp = "handleAnswer"
  /\ Len(answers) >= 2
  /\ answers[1].questionId = currentQuestionId

\* C9: the ledger holds at most one answer per questionId.
C9_OneAnswerPerQuestion ==
  \A i, j \in 1..Len(answers) :
    answers[i].questionId = answers[j].questionId => i = j

\* Two questions answered, one of them twice, and the quiz completed.
C9_Witness ==
  /\ Len(answers) >= 2
  /\ answers[1].value # answers[2].value
  /\ hasSentCompletionData

\* C10: handlePrevious with exactly one entry in questionHistory changes
\* nothing and schedules nothing; questionHistory of a non-empty catalog is
\* never empty and always starts with the first catalog question.
C10_RetreatAtFirstIsNoOp ==
  /\ [][(Len(questionHistory) = 1 /\ lastOp' = "handlePrevious")
        => UNCHANGED <<navVars, answers, timers, hasSentCompletionData,
                       calls>>]_vars
  /\ [](Len(config.questions) > 0
        => /\ questionHistory # <<>>
           /\ questionHistory[1] = config.questions[1])

C10_Witness ==
  /\ lastOp = "handlePrevious"
  /\ Len(questionHistory) = 1
  /\ questionCardShown
  /\ Len(answers) > 0
\* C11: when the completion effect has run, the answer summary holds one
\* entry for each entry of the ledger: as many entries as the ledger has,
\* and under the prompt of every answered question the label of the value
\* recorded for it.
C11_SummaryOnePerQuestion ==
  lastOp = "completionEffect"
  => /\ Cardinality(DOMAIN humanReadableMap) = Len(answers)
     /\ \A i \in 1..Len(answers) :
          LET qTitle == getQuestionText(answers[i].questionId, config)
          IN /\ qTitle \in DOMAIN humanReadableMap
             /\ humanReadableMap[qTitle]
                  = getOptionText(answers[i].questionId, answers[i].value,
                                  config)

\* C12: the callback of an advance() that resolved an interstitial shows that
\* interstitial and leaves currentQuestionId and questionHistory as they
\* were; so while an interstitial is shown currentQuestionId is the question
\* the interstitial is entered from, it is the last entry of
\* questionHistory, and neither changes while the interstitial stays shown.
C12_InterstitialKeepsPosition ==
  /\ [][lastOp' = "showInterstitial"
        => /\ interstitialShown'
           /\ stage' = InterstitialStage(currentInterstitial')
           /\ UNCHANGED <<currentQuestionId, questionHistory>>]_vars
  /\ [](interstitialShown
        => /\ currentQuestionId = BoundFrom(currentInterstitial)
           /\ Last(questionHistory) = currentQuestionId)
  /\ [][interstitialShown /\ interstitialShown'
        => UNCHANGED <<currentQuestionId, questionHistory>>]_vars

\* The retreat of C13: handlePrevious in the stage "questions" with more than
\* one entry in questionHistory and no transition in flight schedules the way
\* back to the second-to-last entry; when that callback fires,
\* questionHistory loses exactly its last entry, currentQuestionId is its new
\* last entry, and the stage and the ledger are unchanged.
RetreatPopsHistory ==
  /\ [][(stage = "questions" /\ Len(questionHistory) > 1
           /\ ~transitionInFlight /\ lastOp' = "handlePrevious")
        => /\ Len(timers') = Len(timers) + 1
           /\ Last(timers').kind = "previous"
           /\ Last(timers').id = questionHistory[Len(questionHistory) - 1]
           /\ UNCHANGED <<stage, answers>>]_vars
  /\ [][lastOp' = "previous"
        => /\ Len(questionHistory) > 1
           /\ questionHistory'
                = SubSeq(questionHistory, 1, Len(questionHistory) - 1)
           /\ currentQuestionId' = Last(questionHistory')
           /\ UNCHANGED <<stage, answers>>]_vars

C14_AnswerChangesLedgerOnly ==
  /\ [][lastOp' = "handleAnswer"
        => /\ UNCHANGED <<stage, currentQuestionId, questionHistory,
                          currentInterstitial, isTransitioning,
                          isInterstitialTransitioning, timers>>
           /\ UNCHANGED <<hasSentCompletionData, calls>>
           /\ \E v \in Values :
                answers' = recordAnswer(answers,
                                        [questionId |-> currentQuestionId,
                                         value |-> v])]_vars
  /\ []((questionCardShown
          /\ (findIndex(answers, currentQuestionId) > 0
                \/ Len(answers) < MaxAnswers))
        => ENABLED handleAnswer)

\* An answer recorded while the callback of an advance() is pending.
C14_Witness ==
  /\ lastOp = "handleAnswer"
  /\ isTransitioning
  /\ timers # <<>>
  /\ answers # <<>>

\* C15: once the stage is "redirecting" (advance() found no next question
\* and the completion effect ran), no intent and no callback changes the
\* stage, makes currentQuestionId non-null or changes questionHistory.
C15_CompletingIsTerminal ==
  /\ [](stage = "redirecting" => currentQuestionId = NULL)
  /\ [][stage = "redirecting"
        => UNCHANGED <<stage, currentQuestionId, questionHistory>>]_vars

\* The position of the first call named c in the log of the effect, 0 when
\* there is none.
CallIndex(c) == IndexOfId(calls, c)

\* C16: whenever the completion effect has run, the redirect was initiated
\* whatever became of the webhook: the webhook was dispatched exactly when
\* the endpoint is neither missing nor blank, postMessage was attempted, and
\* window.location was set, after postMessage, exactly when the page is its
\* own parent or postMessage threw.
C16_RedirectAlwaysInitiated ==
  hasSentCompletionData
  => /\ host.webhook \in {"skipped", "resolves", "rejects"}
     /\ Count(calls, "webhook") = 1
          <=> config.webhookUrl \notin {"", "  "}
     /\ Count(calls, "webhook") = 0 <=> host.webhook = "skipped"
     /\ Count(calls, "postMessage") = 1
     /\ Count(calls, "location") = 1
          <=> (host.parent = "self" \/ host.postMessage = "throws")
     /\ Count(calls, "location") \in {0, 1}
     /\ Count(calls, "location") = 1
          => CallIndex("postMessage") < CallIndex("location")

\* The webhook failed and postMessage threw in an embedded page: the direct
\* navigation was used.
C16_Witness ==
  /\ hasSentCompletionData
  /\ host.webhook = "rejects"
  /\ host.parent = "other"
  /\ host.postMessage = "throws"
  /\ CallIndex("location") > CallIndex("postMessage")

\* C17: the request to set the latch is the first call of the effect, before
\* the webhook, postMessage and window.location, and it is made once in a
\* session; so every external call lies behind the one request and the
\* latch is set in every state that has an external call behind it.
C17_LatchBeforeExternalCalls ==
  /\ Count(calls, "setHasSentCompletionData") <= 1
  /\ \A i \in 1..Len(calls) :
       calls[i] \in {"webhook", "postMessage", "location"}
       => /\ i > 1
          /\ calls[1] = "setHasSentCompletionData"
          /\ hasSentCompletionData

\* The completion check is evaluated again after an advance() past the end,
\* with the calls of the first run behind it.
C17_Witness ==
  /\ lastOp = "handleNext"
  /\ stage = "questions"
  /\ currentQuestionId = NULL
  /\ answers # <<>>
  /\ hasSentCompletionData
  /\ Len(calls) >= 3
  /\ calls[1] = "setHasSentCompletionData"

\* C18: currentInterstitial is non-null exactly in the interstitial stages,
\* where it is the kind of the stage; in the stages "questions" and
\* "redirecting" it is null.
C18_InterstitialMatchesStage ==
  /\ stage \in QuizStage
  /\ currentInterstitial \in InterstitialTypes \cup {NULL}
  /\ currentInterstitial # NULL <=> interstitialShown
  /\ currentInterstitial # NULL
       => stage = InterstitialStage(currentInterstitial)
  /\ stage \in {"questions", "redirecting"} => currentInterstitial = NULL

\* Back on q3 from interstitial B.
C18_Witness ==
  /\ lastOp = "back"
  /\ stage = "questions"
  /\ currentQuestionId = "q3"
  /\ currentInterstitial = NULL

calculateProgress == progressOf(currentQuestionId, config.questions)

\* round(num / den) for positive integers
RoundHalfUp(num, den) == (2 * num + den) \div (2 * den)

\* C20: while a question of the catalog is current, calculateProgress is
\* 100 * (index of the current question + 1) / (number of questions),
\* rounded; it lies in 1..100 and is 100 on the last question only; it is 0
\* when there is no current question or the id is not in the catalog.
C20_ProgressIsRoundedShare ==
  LET total == Len(config.questions)
      position == IndexOfId(config.questions, currentQuestionId)
  IN /\ (currentQuestionId # NULL /\ position > 0)
        => /\ calculateProgress = RoundHalfUp(100 * position, total)
           /\ calculateProgress \in 1..100
           /\ calculateProgress = 100 <=> position = total
     /\ currentQuestionId = NULL => calculateProgress = 0
     /\ progressOf(QuestionId(total + 1), config.questions) = 0
====
